---- MODULE Spec2Model ----
(***************************************************************************)
(* A model of package numbers (abhink/numbers): one request served by      *)
(* NumbersGetter.ServeHTTP, which calls ProcessURLs and aggregates the     *)
(* []int slices that processURLs' worker goroutines send on the returned   *)
(* channel.                                                                *)
(*                                                                         *)
(* Goroutines of the worker pool are anonymous closures that differ only   *)
(* in their position, so the pool is kept as counts: `idle` workers are    *)
(* parked at `for url := range urlCh`, `exited` workers have run           *)
(* wg.Done(), and `busy` is the bag of the workers inside the loop body    *)
(* (`out <- fetchResponse(ctx, cfg, url)`), each with the queue element it *)
(* holds.  Unbuffered channel operations are rendezvous: one action moves  *)
(* both the sender and the receiver.                                       *)
(***************************************************************************)
EXTENDS Integers, Sequences, FiniteSets, Bags, TLC

\* ------------------------------------------------------------- bounds
\* Longest identifier list of a request.
MaxUrls == 2
\* Largest configured cfg.NumGoRoutines.
MaxGoRoutines == 2
\* Longest identifier list of a request that leaves cfg.NumGoRoutines unset
\* (zero or negative), so that the default number of workers runs.
MaxUrlsDefault == 1
\* The aggregation alone: the longest stream of slices, the largest integer
\* in a slice and the longest slice.
MaxStream == 2
\* The ServeHTTP calls on one NumbersGetter that may overlap.
MaxRequests == 2
MaxInt == 1
MaxItemLen == 2
\* nRandomNumbers(n) of the test getter, scaled: "rand10" answers a
\* permutation of 0..N10-1 and "rand100" one of 0..N100-1.
N10 == 1
N100 == 2

\* ---------------------------------------------------------- constants
\* var numGoRoutines = 20
numGoRoutines == 20
\* newConfig(..., 50*time.Millisecond): the per-request timeout of testGetter.
GetTimeoutMs == 50

\* ------------------------------------------------------------- values
\* A []int: the nil slice, or a slice with elements v.
NilSlice == [nil |-> TRUE, v |-> <<>>]
Slice(s) == [nil |-> FALSE, v |-> s]

Range(s) == {s[k] : k \in 1..Len(s)}

\* Nothing is written to the ResponseWriter yet.
NoBody == [written |-> FALSE, Numbers |-> NilSlice]

\* json.NewEncoder(w).Encode(map[string]interface{}{"Numbers": response}):
\* a nil slice encodes as null, any other as the array of its elements.
Encode(resp) == [written |-> TRUE, Numbers |-> resp]

\* The permutations of the finite set S, as sequences.
Perms(S) ==
    {p \in [1..Cardinality(S) -> S] : \A a, b \in 1..Cardinality(S) : p[a] = p[b] => a = b}

\* The identifiers of the tests, as strings.Split(url, ".") sees them:
\* sr = params[0], rt = params[1] (the latency in ms).
Identifiers ==
    { [sr |-> "http://rand10",  rt |-> 10],
      [sr |-> "http://rand100", rt |-> 20],
      [sr |-> "http://rand10",  rt |-> 100],
      [sr |-> "http://fail",    rt |-> 10],
      [sr |-> "://fail",        rt |-> 10] }

SeqsUpTo(S, n) == UNION {[1..k -> S] : k \in 0..n}

VARIABLES
    urls,         \* r.Form["u"]: the identifiers of the request
    cfg,          \* ng.Config: [NumGoRoutines, URLGetter]
    cancelled,    \* ctx.Done() is closed
    spc,          \* position of ServeHTTP
    numbersMap,   \* ServeHTTP's numbersMap, as the set of its keys
    response,     \* ServeHTTP's response slice
    status,       \* status written to the ResponseWriter (0: none yet)
    ppc,          \* position of the processURLs goroutine
    spawned,      \* worker goroutines started so far (loop variable i)
    next,         \* iterations of `for _, url := range urls` completed
    wg,           \* the WaitGroup counter
    urlChClosed,  \* close(urlCh) has run
    outCloses,    \* number of times close(out) has run
    idle,         \* workers parked at `range urlCh`
    exited,       \* workers that have returned
    busy,         \* bag of [i, pc, ns]: workers in the loop body
    panicked,     \* a goroutine sent on the closed out channel
    received,     \* history: what the consumer received, in order, as [i, ns]
    handed,       \* history: handed[i] = times urls[i] was received from urlCh
    fetched,      \* history: fetched[i] = Get calls completed for urls[i]
    doneTaken,    \* history: the producer's select took <-ctx.Done()
    atCancel,     \* history: [inflight, finished] index sets when ctx was cancelled
    body,         \* the JSON object encoded to the ResponseWriter
    given,        \* history: cfg.NumGoRoutines as the caller configured it
    completed,    \* history: the indices in the order their fetchResponse returned
    limiter,      \* processURLs2: elements in the buffer of the limiter channel
    limiterClosed, \* processURLs2: close(limiter) has run
    calls         \* positions of the ServeHTTP calls on one NumbersGetter

vars == <<urls, cfg, cancelled, spc, numbersMap, response, status, ppc, spawned,
          next, wg, urlChClosed, outCloses, idle, exited, busy, panicked,
          received, handed, fetched, doneTaken, atCancel,
          body, given, completed, limiter, limiterClosed, calls>>

\* The variables that only WriteResponse, FetchReturn and processURLs2 change.
xvars == <<body, given, completed, limiter, limiterClosed, calls>>

svars == <<spc, numbersMap, response, status>>
pvars == <<ppc, spawned, next, wg, urlChClosed, outCloses>>
hvars == <<received, handed, fetched, doneTaken, atCancel>>

\* ------------------------------------------------------ the test getter
\* nRandomNumbers(n): json.Marshal(result{Numbers: rand.Perm(n)}), any
\* permutation of 0..n-1.
nRandomNumbers(n) == {[valid |-> TRUE, numbers |-> p] : p \in Perms(0..(n - 1))}

\* "a response that will not be parsed"
Unparsable == [valid |-> FALSE, numbers |-> <<>>]

\* Mutant: Get without the `case <-ctx.Done()` of its select.
GetIgnoringCtx(done, url) ==
    IF url.rt >= GetTimeoutMs
    THEN {[err |-> TRUE, data |-> Unparsable]}
    ELSE CASE url.sr = "http://fail"    -> {[err |-> TRUE, data |-> Unparsable]}
           [] url.sr = "http://rand10"  -> {[err |-> FALSE, data |-> d] : d \in nRandomNumbers(N10)}
           [] url.sr = "http://rand100" -> {[err |-> FALSE, data |-> d] : d \in nRandomNumbers(N100)}
           [] OTHER                     -> {[err |-> FALSE, data |-> Unparsable]}

\* testGetter.Get: after sleeping rt ms, an error if ctx is done or the
\* request timeout has fired; else the answer that sr selects.  The set of
\* the (data, err) pairs the call can return.
Get(done, url) ==
    IF done \/ url.rt >= GetTimeoutMs
    THEN {[err |-> TRUE, data |-> Unparsable]}
    ELSE CASE url.sr = "http://fail"    -> {[err |-> TRUE, data |-> Unparsable]}
           [] url.sr = "http://rand10"  -> {[err |-> FALSE, data |-> d] : d \in nRandomNumbers(N10)}
           [] url.sr = "http://rand100" -> {[err |-> FALSE, data |-> d] : d \in nRandomNumbers(N100)}
           [] OTHER                     -> {[err |-> FALSE, data |-> Unparsable]}

\* json.Unmarshal(data, &result): an error unless data is a result record.
Unmarshal(data) ==
    IF data.valid THEN [err |-> FALSE, Numbers |-> data.numbers]
                  ELSE [err |-> TRUE, Numbers |-> <<>>]

\* fetchResponse: nil on a Get error or a decode error, else result.Numbers.
\* The set of the slices the call can return when Get returns with ctx in
\* state `done`.
fetchResponse(done, url) ==
    { IF g.err THEN NilSlice
      ELSE IF Unmarshal(g.data).err THEN NilSlice
      ELSE Slice(Unmarshal(g.data).Numbers) : g \in Get(done, url) }

\* sort.Ints: insertion of each element into an ascending sequence.
RECURSIVE Insert(_, _)
Insert(x, s) ==
    IF s = <<>> THEN <<x>>
    ELSE IF x <= Head(s) THEN <<x>> \o s
    ELSE <<Head(s)>> \o Insert(x, Tail(s))

RECURSIVE InsertAll(_)
InsertAll(s) == IF s = <<>> THEN <<>> ELSE Insert(Head(s), InsertAll(Tail(s)))

\* Mutant: the sort.Ints call is left out.
sortIntsOmitted(s) == s

sortInts(s) == InsertAll(s)

\* Mutant: numbersMap is made anew for every received slice.
addNumbersToNewMap(m, ns) == Range(ns.v)

\* for _, n := range ns { numbersMap[n] = true }
addNumbers(m, ns) == m \cup Range(ns.v)

\* ------------------------------------------------------------- helpers
Add(b, w) == b (+) SetToBag({w})
Remove(b, w) == b (-) SetToBag({w})
Workers == BagToSet(busy)
Fetching == {w \in Workers : w.pc \in {"fetch", "tfetch"}}
Sending == {w \in Workers : w.pc \in {"send", "tsend"}}
Idx == 1..Len(urls)
Requests == 1..MaxRequests

\* ---------------------------------------------------------------- Init
\* The state when ServeHTTP is about to call ProcessURLs: the form is
\* parsed, ctx is created and live, no goroutine is started.
Init ==
    /\ urls \in SeqsUpTo(Identifiers, MaxUrls)
    /\ cfg \in [NumGoRoutines : (-1)..MaxGoRoutines, URLGetter : {"testGetter"}]
    /\ cfg.NumGoRoutines <= 0 => Len(urls) <= MaxUrlsDefault
    /\ cancelled = FALSE
    /\ spc = "call"
    /\ numbersMap = {}
    /\ response = <<>>
    /\ status = 0
    /\ ppc = "none"
    /\ spawned = 0
    /\ next = 0
    /\ wg = 0
    /\ urlChClosed = FALSE
    /\ outCloses = 0
    /\ idle = 0
    /\ exited = 0
    /\ busy = EmptyBag
    /\ panicked = FALSE
    /\ received = <<>>
    /\ handed = [i \in Idx |-> 0]
    /\ fetched = [i \in Idx |-> 0]
    /\ doneTaken = FALSE
    /\ atCancel = [inflight |-> {}, finished |-> {}]
    /\ body = NoBody
    /\ given = cfg.NumGoRoutines
    /\ completed = <<>>
    /\ limiter = 0
    /\ limiterClosed = FALSE
    /\ calls = [r \in Requests |-> "idle"]

\* ------------------------------------------------------------- context
\* The deadline of context.WithTimeout expires, or the request's context is
\* cancelled: ctx.Done() is closed.
Cancel ==
    /\ ~cancelled
    /\ spc # "done"
    /\ cancelled' = TRUE
    /\ atCancel' = [inflight |-> {w.i : w \in Fetching},
                    finished |-> {w.i : w \in Sending} \cup {received[k].i : k \in 1..Len(received)}]
    /\ UNCHANGED <<urls, cfg, svars, pvars, idle, exited, busy, panicked,
                   received, handed, fetched, doneTaken>>
    /\ UNCHANGED xvars

\* ---------------------------------------------------------- ProcessURLs
\* ProcessURLs: default the worker count, make numbersCh, start the
\* processURLs goroutine and return the channel to ServeHTTP's range loop.
\* cfg.URLGetter is set by the caller (the test getter), so it is not
\* replaced by NewDefaultGet.
ProcessURLs ==
    /\ spc = "call"
    /\ cfg' = [cfg EXCEPT !.NumGoRoutines =
                 IF cfg.NumGoRoutines <= 0 THEN numGoRoutines ELSE cfg.NumGoRoutines]
    /\ ppc' = "add"
    /\ spc' = "range"
    /\ UNCHANGED <<urls, cancelled, numbersMap, response, status, spawned, next, wg,
                   urlChClosed, outCloses, idle, exited, busy, panicked, hvars>>
    /\ UNCHANGED xvars

\* wg.Add(cfg.NumGoRoutines); urlCh := make(chan string)
WgAdd ==
    /\ ppc = "add"
    /\ wg' = wg + cfg.NumGoRoutines
    /\ ppc' = "spawn"
    /\ UNCHANGED <<urls, cfg, cancelled, svars, spawned, next, urlChClosed, outCloses,
                   idle, exited, busy, panicked, hvars>>
    /\ UNCHANGED xvars

\* Mutant: `i <= cfg.NumGoRoutines`, one worker too many.
StartWorkerOneMore ==
    /\ ppc = "spawn"
    /\ spawned <= cfg.NumGoRoutines
    /\ spawned' = spawned + 1
    /\ idle' = idle + 1
    /\ ppc' = IF spawned + 1 <= cfg.NumGoRoutines THEN "spawn" ELSE "loop"
    /\ UNCHANGED <<urls, cfg, cancelled, svars, next, wg, urlChClosed, outCloses,
                   exited, busy, panicked, hvars>>
    /\ UNCHANGED xvars

\* for i := 0; i < cfg.NumGoRoutines; i++ { go func() {...}() }: one
\* iteration; the new worker parks at `range urlCh`.
StartWorker ==
    /\ ppc = "spawn"
    /\ spawned < cfg.NumGoRoutines
    /\ spawned' = spawned + 1
    /\ idle' = idle + 1
    /\ ppc' = IF spawned + 1 < cfg.NumGoRoutines THEN "spawn" ELSE "loop"
    /\ UNCHANGED <<urls, cfg, cancelled, svars, next, wg, urlChClosed, outCloses,
                   exited, busy, panicked, hvars>>
    /\ UNCHANGED xvars

\* Mutant: the producer sends the same url again (the index is not advanced).
SelectSendNoAdvance ==
    /\ ppc = "loop"
    /\ next < Len(urls)
    /\ idle > 0
    /\ idle' = idle - 1
    /\ busy' = Add(busy, [i |-> next + 1, pc |-> "fetch", ns |-> NilSlice])
    /\ handed' = [handed EXCEPT ![next + 1] = @ + 1]
    /\ next' = IF handed[next + 1] = 0 THEN next ELSE next + 1
    /\ UNCHANGED <<urls, cfg, cancelled, svars, ppc, spawned, wg, urlChClosed, outCloses,
                   exited, panicked, received, fetched, doneTaken, atCancel>>
    /\ UNCHANGED xvars

\* select { case urlCh <- url: }: the send meets a parked worker, which
\* enters the loop body and calls fetchResponse (Get is in flight).
SelectSend ==
    /\ ppc = "loop"
    /\ next < Len(urls)
    /\ idle > 0
    /\ idle' = idle - 1
    /\ busy' = Add(busy, [i |-> next + 1, pc |-> "fetch", ns |-> NilSlice])
    /\ handed' = [handed EXCEPT ![next + 1] = @ + 1]
    /\ next' = next + 1
    /\ UNCHANGED <<urls, cfg, cancelled, svars, ppc, spawned, wg, urlChClosed, outCloses,
                   exited, panicked, received, fetched, doneTaken, atCancel>>
    /\ UNCHANGED xvars

\* Mutant: `default:` in place of `case <-ctx.Done():`.
SelectDefault ==
    /\ ppc = "loop"
    /\ next < Len(urls)
    /\ next' = next + 1
    /\ doneTaken' = TRUE
    /\ UNCHANGED <<urls, cfg, cancelled, svars, ppc, spawned, wg, urlChClosed, outCloses,
                   idle, exited, busy, panicked, received, handed, fetched, atCancel>>
    /\ UNCHANGED xvars

\* Mutant: the select has only the case urlCh <- url, the ctx.Done branch
\* can never be taken.
SelectDoneAbsent ==
    /\ ppc = "loop"
    /\ next < Len(urls)
    /\ FALSE
    /\ UNCHANGED vars

\* select { case <-ctx.Done(): break }: the break leaves the select, not
\* the for loop, which goes on to the next url.
SelectDone ==
    /\ ppc = "loop"
    /\ next < Len(urls)
    /\ cancelled
    /\ next' = next + 1
    /\ doneTaken' = TRUE
    /\ UNCHANGED <<urls, cfg, cancelled, svars, ppc, spawned, wg, urlChClosed, outCloses,
                   idle, exited, busy, panicked, received, handed, fetched, atCancel>>
    /\ UNCHANGED xvars

\* Mutant: close(urlCh) is left out.
CloseUrlChOmitted ==
    /\ ppc = "loop"
    /\ next >= Len(urls)
    /\ ppc' = "wait"
    /\ UNCHANGED <<urls, cfg, cancelled, svars, spawned, next, wg, urlChClosed, outCloses,
                   idle, exited, busy, panicked, hvars>>
    /\ UNCHANGED xvars

\* close(urlCh), after the for loop.
CloseUrlCh ==
    /\ ppc = "loop"
    /\ next >= Len(urls)
    /\ urlChClosed' = TRUE
    /\ ppc' = "wait"
    /\ UNCHANGED <<urls, cfg, cancelled, svars, spawned, next, wg, outCloses,
                   idle, exited, busy, panicked, hvars>>
    /\ UNCHANGED xvars

\* Mutant: no barrier before close(out).
WgWaitOmitted ==
    /\ ppc = "wait"
    /\ ppc' = "close"
    /\ UNCHANGED <<urls, cfg, cancelled, svars, spawned, next, wg, urlChClosed, outCloses,
                   idle, exited, busy, panicked, hvars>>
    /\ UNCHANGED xvars

\* wg.Wait()
WgWait ==
    /\ ppc = "wait"
    /\ wg = 0
    /\ ppc' = "close"
    /\ UNCHANGED <<urls, cfg, cancelled, svars, spawned, next, wg, urlChClosed, outCloses,
                   idle, exited, busy, panicked, hvars>>
    /\ UNCHANGED xvars

\* close(out)
CloseOut ==
    /\ ppc = "close"
    /\ outCloses' = outCloses + 1
    /\ ppc' = "done"
    /\ UNCHANGED <<urls, cfg, cancelled, svars, spawned, next, wg, urlChClosed,
                   idle, exited, busy, panicked, hvars>>
    /\ UNCHANGED xvars

\* -------------------------------------------------------------- workers
\* Mutant: the worker returns without wg.Done().
WorkerExitNoDone ==
    /\ idle > 0
    /\ urlChClosed
    /\ idle' = idle - 1
    /\ exited' = exited + 1
    /\ UNCHANGED <<urls, cfg, cancelled, svars, pvars, busy, panicked, hvars>>
    /\ UNCHANGED xvars

\* `for url := range urlCh` on the closed channel: the loop ends and the
\* deferred wg.Done() runs.
WorkerExit ==
    /\ idle > 0
    /\ urlChClosed
    /\ idle' = idle - 1
    /\ exited' = exited + 1
    /\ wg' = wg - 1
    /\ UNCHANGED <<urls, cfg, cancelled, svars, ppc, spawned, next, urlChClosed, outCloses,
                   busy, panicked, hvars>>
    /\ UNCHANGED xvars

\* fetchResponse(ctx, cfg, url) returns: the worker holds the slice it is
\* about to send.
FetchStep(w) ==
    /\ w.pc = "fetch"
    /\ \E ns \in fetchResponse(cancelled, urls[w.i]) :
          busy' = Add(Remove(busy, w), [w EXCEPT !.pc = "send", !.ns = ns])
    /\ fetched' = [fetched EXCEPT ![w.i] = @ + 1]
    /\ UNCHANGED <<urls, cfg, cancelled, svars, pvars, idle, exited, panicked,
                   received, handed, doneTaken, atCancel>>
    /\ UNCHANGED <<body, given, limiter, limiterClosed, calls>>

FetchReturn(w) == FetchStep(w) /\ UNCHANGED completed

\* The same step, with the order of the returns recorded.
FetchReturnInOrder(w) == FetchStep(w) /\ completed' = Append(completed, w.i)

\* Mutant: after a nil result the worker fetches the same url again.
WorkerSendRetry(w) ==
    /\ w.pc = "send"
    /\ IF outCloses > 0
       THEN /\ panicked' = TRUE
            /\ busy' = Remove(busy, w)
            /\ UNCHANGED <<idle, received, numbersMap>>
       ELSE /\ spc = "range"
            /\ received' = Append(received, [i |-> w.i, ns |-> w.ns])
            /\ numbersMap' = addNumbers(numbersMap, w.ns)
            /\ IF w.ns.nil /\ fetched[w.i] < 2
               THEN /\ busy' = Add(Remove(busy, w), [w EXCEPT !.pc = "fetch"])
                    /\ UNCHANGED idle
               ELSE /\ busy' = Remove(busy, w)
                    /\ idle' = idle + 1
            /\ UNCHANGED panicked
    /\ UNCHANGED <<urls, cfg, cancelled, spc, response, status, pvars, exited,
                   handed, fetched, doneTaken, atCancel>>
    /\ UNCHANGED xvars

\* Mutant: a worker returns (wg.Done) after a nil result.
WorkerSendAbortOnNil(w) ==
    /\ w.pc = "send"
    /\ IF outCloses > 0
       THEN /\ panicked' = TRUE
            /\ busy' = Remove(busy, w)
            /\ UNCHANGED <<idle, exited, wg, received, numbersMap>>
       ELSE /\ spc = "range"
            /\ received' = Append(received, [i |-> w.i, ns |-> w.ns])
            /\ numbersMap' = addNumbers(numbersMap, w.ns)
            /\ busy' = Remove(busy, w)
            /\ IF w.ns.nil
               THEN /\ exited' = exited + 1
                    /\ wg' = wg - 1
                    /\ UNCHANGED idle
               ELSE /\ idle' = idle + 1
                    /\ UNCHANGED <<exited, wg>>
            /\ UNCHANGED panicked
    /\ UNCHANGED <<urls, cfg, cancelled, spc, response, status, ppc, spawned, next,
                   urlChClosed, outCloses, handed, fetched, doneTaken, atCancel>>
    /\ UNCHANGED xvars

\* Mutant: `if ns != nil { out <- ns }`: a nil result is not sent.
WorkerSendSkipNil(w) ==
    /\ w.pc = "send"
    /\ IF w.ns.nil
       THEN /\ busy' = Remove(busy, w)
            /\ idle' = idle + 1
            /\ UNCHANGED <<panicked, received, numbersMap>>
       ELSE IF outCloses > 0
       THEN /\ panicked' = TRUE
            /\ busy' = Remove(busy, w)
            /\ UNCHANGED <<idle, received, numbersMap>>
       ELSE /\ spc = "range"
            /\ received' = Append(received, [i |-> w.i, ns |-> w.ns])
            /\ numbersMap' = addNumbers(numbersMap, w.ns)
            /\ busy' = Remove(busy, w)
            /\ idle' = idle + 1
            /\ UNCHANGED panicked
    /\ UNCHANGED <<urls, cfg, cancelled, spc, response, status, pvars, exited,
                   handed, fetched, doneTaken, atCancel>>
    /\ UNCHANGED xvars

\* out <- ns meets ServeHTTP's `for ns := range numbersCh`, whose body adds
\* every n of ns to numbersMap; the worker goes back to `range urlCh`.  A
\* send on the closed channel panics.
\* Mutant: the send is in a select with <-ctx.Done(), so cancellation
\* releases the worker and its result is dropped.
WorkerSendOrDone(w) ==
    /\ w.pc = "send"
    /\ IF cancelled
       THEN /\ busy' = Remove(busy, w)
            /\ idle' = idle + 1
            /\ UNCHANGED <<panicked, received, numbersMap>>
       ELSE IF outCloses > 0
       THEN /\ panicked' = TRUE
            /\ busy' = Remove(busy, w)
            /\ UNCHANGED <<idle, received, numbersMap>>
       ELSE /\ spc = "range"
            /\ received' = Append(received, [i |-> w.i, ns |-> w.ns])
            /\ numbersMap' = addNumbers(numbersMap, w.ns)
            /\ busy' = Remove(busy, w)
            /\ idle' = idle + 1
            /\ UNCHANGED panicked
    /\ UNCHANGED <<urls, cfg, cancelled, spc, response, status, pvars, exited,
                   handed, fetched, doneTaken, atCancel>>
    /\ UNCHANGED xvars

WorkerSend(w) ==
    /\ w.pc = "send"
    /\ IF outCloses > 0
       THEN /\ panicked' = TRUE
            /\ busy' = Remove(busy, w)
            /\ UNCHANGED <<idle, received, numbersMap>>
       ELSE /\ spc = "range"
            /\ received' = Append(received, [i |-> w.i, ns |-> w.ns])
            /\ numbersMap' = addNumbers(numbersMap, w.ns)
            /\ busy' = Remove(busy, w)
            /\ idle' = idle + 1
            /\ UNCHANGED panicked
    /\ UNCHANGED <<urls, cfg, cancelled, spc, response, status, pvars, exited,
                   handed, fetched, doneTaken, atCancel>>
    /\ UNCHANGED xvars

\* ------------------------------------------------------------ ServeHTTP
\* Mutant: the range loop is left when ctx is done, closed stream or not.
CollectOrDone ==
    /\ spc = "range"
    /\ outCloses > 0 \/ cancelled
    /\ \E p \in Perms(numbersMap) : response' = sortInts(p)
    /\ spc' = "write"
    /\ UNCHANGED <<urls, cfg, cancelled, numbersMap, status, pvars, idle, exited, busy,
                   panicked, hvars>>
    /\ UNCHANGED xvars

\* The range over numbersCh ends on the closed channel; the keys of
\* numbersMap are appended to response in map iteration order and sorted.
Collect ==
    /\ spc = "range"
    /\ outCloses > 0
    /\ \E p \in Perms(numbersMap) : response' = sortInts(p)
    /\ spc' = "write"
    /\ UNCHANGED <<urls, cfg, cancelled, numbersMap, status, pvars, idle, exited, busy,
                   panicked, hvars>>
    /\ UNCHANGED xvars

\* Mutant: an error status and no array when nothing was collected.
WriteResponseErrorIfEmpty ==
    /\ spc = "write"
    /\ status' = IF response = <<>> THEN 500 ELSE 200
    /\ body' = IF response = <<>> THEN Encode(NilSlice) ELSE Encode(Slice(response))
    /\ spc' = "return"
    /\ UNCHANGED <<given, completed, limiter, limiterClosed, calls>>
    /\ UNCHANGED <<urls, cfg, cancelled, numbersMap, response, pvars, idle, exited, busy,
                   panicked, hvars>>

\* w.WriteHeader(http.StatusOK); Encode({"Numbers": response})
WriteResponse ==
    /\ spc = "write"
    /\ status' = 200
    /\ body' = Encode(Slice(response))
    /\ spc' = "return"
    /\ UNCHANGED <<given, completed, limiter, limiterClosed, calls>>
    /\ UNCHANGED <<urls, cfg, cancelled, numbersMap, response, pvars, idle, exited, busy,
                   panicked, hvars>>

\* ServeHTTP returns: the deferred cancel() runs.
Return ==
    /\ spc = "return"
    /\ cancelled' = TRUE
    /\ spc' = "done"
    /\ UNCHANGED <<urls, cfg, numbersMap, response, status, pvars, idle, exited, busy,
                   panicked, hvars>>
    /\ UNCHANGED xvars

Producer == WgAdd \/ StartWorker \/ SelectSend \/ SelectDone \/ CloseUrlCh \/ WgWait \/ CloseOut
Worker == WorkerExit \/ (\E w \in Workers : FetchReturn(w)) \/ (\E w \in Workers : WorkerSend(w))
Handler == ProcessURLs \/ Collect \/ WriteResponse \/ Return

Next == Cancel \/ Producer \/ Worker \/ Handler

Spec == Init /\ [][Next]_vars

\* Every goroutine that can take a step eventually does; the deadline may
\* never fire.
FairSpec == Spec /\ WF_vars(Producer) /\ WF_vars(Worker) /\ WF_vars(Handler)

\* Only the processURLs goroutine is sure to be scheduled: the workers and
\* the consumer may stay where they are for ever.
ProducerFairSpec == Spec /\ WF_vars(Producer)

\* --------------------------------------------------------- processURLs2
\* ProcessURLs with processURLs2 as the drop-in replacement of processURLs
\* in `go processURLs(ctx, cfg, urls, numbersCh)`.
ProcessURLsLazy ==
    /\ spc = "call"
    /\ cfg' = [cfg EXCEPT !.NumGoRoutines =
                 IF cfg.NumGoRoutines <= 0 THEN numGoRoutines ELSE cfg.NumGoRoutines]
    /\ ppc' = "loop2"
    /\ spc' = "range"
    /\ UNCHANGED <<urls, cancelled, numbersMap, response, status, spawned, next, wg,
                   urlChClosed, outCloses, idle, exited, busy, panicked, hvars, xvars>>

\* Mutant: the limiter is made with room for one element more.
SelectLimiterOverCapacity ==
    /\ ppc = "loop2"
    /\ next < Len(urls)
    /\ limiter < cfg.NumGoRoutines + 1
    /\ limiter' = limiter + 1
    /\ wg' = wg + 1
    /\ busy' = Add(busy, [i |-> next + 1, pc |-> "tfetch", ns |-> NilSlice])
    /\ handed' = [handed EXCEPT ![next + 1] = @ + 1]
    /\ next' = next + 1
    /\ UNCHANGED <<urls, cfg, cancelled, svars, ppc, spawned, urlChClosed, outCloses,
                   idle, exited, panicked, received, fetched, doneTaken, atCancel,
                   body, given, completed, limiterClosed, calls>>

\* Mutant: with the limiter full the url is skipped (a `default:` case).
SelectLimiterDropping ==
    /\ ppc = "loop2"
    /\ next < Len(urls)
    /\ IF limiter < cfg.NumGoRoutines
       THEN /\ limiter' = limiter + 1
            /\ wg' = wg + 1
            /\ busy' = Add(busy, [i |-> next + 1, pc |-> "tfetch", ns |-> NilSlice])
            /\ handed' = [handed EXCEPT ![next + 1] = @ + 1]
       ELSE UNCHANGED <<limiter, wg, busy, handed>>
    /\ next' = next + 1
    /\ UNCHANGED <<urls, cfg, cancelled, svars, ppc, spawned, urlChClosed, outCloses,
                   idle, exited, panicked, received, fetched, doneTaken, atCancel,
                   body, given, completed, limiterClosed, calls>>

\* select { case limiter <- struct{}{}: wg.Add(1) } and the go statement:
\* the limiter has room, a task is started for the url.
SelectLimiter ==
    /\ ppc = "loop2"
    /\ next < Len(urls)
    /\ limiter < cfg.NumGoRoutines
    /\ limiter' = limiter + 1
    /\ wg' = wg + 1
    /\ busy' = Add(busy, [i |-> next + 1, pc |-> "tfetch", ns |-> NilSlice])
    /\ handed' = [handed EXCEPT ![next + 1] = @ + 1]
    /\ next' = next + 1
    /\ UNCHANGED <<urls, cfg, cancelled, svars, ppc, spawned, urlChClosed, outCloses,
                   idle, exited, panicked, received, fetched, doneTaken, atCancel,
                   body, given, completed, limiterClosed, calls>>

\* select { case <-ctx.Done(): return }: processURLs2 returns, without
\* wg.Wait() and without close(out).
SelectDoneReturn ==
    /\ ppc = "loop2"
    /\ next < Len(urls)
    /\ cancelled
    /\ ppc' = "returned"
    /\ doneTaken' = TRUE
    /\ UNCHANGED <<urls, cfg, cancelled, svars, spawned, next, wg, urlChClosed, outCloses,
                   idle, exited, busy, panicked, received, handed, fetched, atCancel, xvars>>

\* wg.Wait(), after the for loop.
WgWait2 ==
    /\ ppc = "loop2"
    /\ next >= Len(urls)
    /\ wg = 0
    /\ ppc' = "close2"
    /\ UNCHANGED <<urls, cfg, cancelled, svars, spawned, next, wg, urlChClosed, outCloses,
                   idle, exited, busy, panicked, hvars, xvars>>

\* close(out)
CloseOut2 ==
    /\ ppc = "close2"
    /\ outCloses' = outCloses + 1
    /\ ppc' = "closelimiter"
    /\ UNCHANGED <<urls, cfg, cancelled, svars, spawned, next, wg, urlChClosed,
                   idle, exited, busy, panicked, hvars, xvars>>

\* close(limiter)
CloseLimiter ==
    /\ ppc = "closelimiter"
    /\ limiterClosed' = TRUE
    /\ ppc' = "done"
    /\ UNCHANGED <<urls, cfg, cancelled, svars, spawned, next, wg, urlChClosed, outCloses,
                   idle, exited, busy, panicked, hvars, body, given, completed, limiter,
                   calls>>

\* fetchResponse(ctx, cfg, url) returns in a task.
TaskFetchReturn(w) ==
    /\ w.pc = "tfetch"
    /\ \E ns \in fetchResponse(cancelled, urls[w.i]) :
          busy' = Add(Remove(busy, w), [w EXCEPT !.pc = "tsend", !.ns = ns])
    /\ fetched' = [fetched EXCEPT ![w.i] = @ + 1]
    /\ UNCHANGED <<urls, cfg, cancelled, svars, pvars, idle, exited, panicked,
                   received, handed, doneTaken, atCancel, xvars>>

\* out <- ns in a task meets ServeHTTP's range loop; the deferred function
\* is next.  A send on the closed channel panics.
TaskSend(w) ==
    /\ w.pc = "tsend"
    /\ IF outCloses > 0
       THEN /\ panicked' = TRUE
            /\ busy' = Remove(busy, w)
            /\ UNCHANGED <<received, numbersMap>>
       ELSE /\ spc = "range"
            /\ received' = Append(received, [i |-> w.i, ns |-> w.ns])
            /\ numbersMap' = addNumbers(numbersMap, w.ns)
            /\ busy' = Add(Remove(busy, w), [w EXCEPT !.pc = "release"])
            /\ UNCHANGED panicked
    /\ UNCHANGED <<urls, cfg, cancelled, spc, response, status, pvars, idle, exited,
                   handed, fetched, doneTaken, atCancel, xvars>>

\* <-limiter in the deferred function: an element of the buffer, or the
\* zero value at once if the limiter is closed and empty.
TaskRelease(w) ==
    /\ w.pc = "release"
    /\ limiter > 0 \/ limiterClosed
    /\ limiter' = IF limiter > 0 THEN limiter - 1 ELSE limiter
    /\ busy' = Add(Remove(busy, w), [w EXCEPT !.pc = "wgdone"])
    /\ UNCHANGED <<urls, cfg, cancelled, svars, pvars, idle, exited, panicked, hvars,
                   body, given, completed, limiterClosed, calls>>

\* wg.Done() in the deferred function; the task ends.
TaskDone(w) ==
    /\ w.pc = "wgdone"
    /\ wg' = wg - 1
    /\ busy' = Remove(busy, w)
    /\ exited' = exited + 1
    /\ UNCHANGED <<urls, cfg, cancelled, svars, ppc, spawned, next, urlChClosed, outCloses,
                   idle, panicked, hvars, xvars>>

Producer2 == SelectLimiter \/ SelectDoneReturn \/ WgWait2 \/ CloseOut2 \/ CloseLimiter
Task ==
    \/ \E w \in Workers : TaskFetchReturn(w)
    \/ \E w \in Workers : TaskSend(w)
    \/ \E w \in Workers : TaskRelease(w)
    \/ \E w \in Workers : TaskDone(w)
Handler2 == ProcessURLsLazy \/ Collect \/ WriteResponse \/ Return

Next2 == Cancel \/ Producer2 \/ Task \/ Handler2

\* One request served with processURLs2.
Spec2 == Init /\ [][Next2]_vars

\* One request served with either implementation.
NextBoth == Cancel \/ Producer \/ Worker \/ Producer2 \/ Task \/ Handler \/ ProcessURLsLazy

SpecBoth == Init /\ [][NextBoth]_vars

\* ------------------------------------------------- the order of returns
WorkerInOrder ==
    \/ WorkerExit
    \/ \E w \in Workers : FetchReturnInOrder(w)
    \/ \E w \in Workers : WorkerSend(w)

NextInOrder == Cancel \/ Producer \/ WorkerInOrder \/ Handler

\* One request served with processURLs, the order of the returns of
\* fetchResponse recorded in `completed`.
SpecInOrder == Init /\ [][NextInOrder]_vars

\* ------------------------------- overlapping calls on one NumbersGetter
\* net/http runs every ServeHTTP call in a goroutine of its own; all calls
\* pass &ng.Config to ProcessURLs and nothing synchronises them.  Each
\* step below is one access to a field of that Config.
rvars == <<urls, cancelled, svars, pvars, idle, exited, busy, panicked, hvars,
           body, given, completed, limiter, limiterClosed>>

RaceInit ==
    /\ urls = <<>>
    /\ cfg \in [NumGoRoutines : (-1)..MaxGoRoutines, URLGetter : {"nil", "testGetter"}]
    /\ cancelled = FALSE
    /\ spc = "call"
    /\ numbersMap = {}
    /\ response = <<>>
    /\ status = 0
    /\ ppc = "none"
    /\ spawned = 0
    /\ next = 0
    /\ wg = 0
    /\ urlChClosed = FALSE
    /\ outCloses = 0
    /\ idle = 0
    /\ exited = 0
    /\ busy = EmptyBag
    /\ panicked = FALSE
    /\ received = <<>>
    /\ handed = <<>>
    /\ fetched = <<>>
    /\ doneTaken = FALSE
    /\ atCancel = [inflight |-> {}, finished |-> {}]
    /\ body = NoBody
    /\ given = cfg.NumGoRoutines
    /\ completed = <<>>
    /\ limiter = 0
    /\ limiterClosed = FALSE
    /\ calls = [r \in Requests |-> "idle"]

\* A request arrives: ServeHTTP runs up to the call of ProcessURLs.
ServeHTTPCall(r) ==
    /\ calls[r] = "idle"
    /\ calls' = [calls EXCEPT ![r] = "readNum"]
    /\ UNCHANGED <<cfg, rvars>>

\* if cfg.NumGoRoutines <= 0
ReadNumGoRoutines(r) ==
    /\ calls[r] = "readNum"
    /\ calls' = [calls EXCEPT ![r] = IF cfg.NumGoRoutines <= 0 THEN "writeNum" ELSE "readGetter"]
    /\ UNCHANGED <<cfg, rvars>>

\* cfg.NumGoRoutines = numGoRoutines
WriteNumGoRoutines(r) ==
    /\ calls[r] = "writeNum"
    /\ cfg' = [cfg EXCEPT !.NumGoRoutines = numGoRoutines]
    /\ calls' = [calls EXCEPT ![r] = "readGetter"]
    /\ UNCHANGED rvars

\* if cfg.URLGetter == nil
ReadURLGetter(r) ==
    /\ calls[r] = "readGetter"
    /\ calls' = [calls EXCEPT ![r] = IF cfg.URLGetter = "nil" THEN "writeGetter" ELSE "pool"]
    /\ UNCHANGED <<cfg, rvars>>

\* cfg.URLGetter = NewDefaultGet(cfg.GetTimeout)
WriteURLGetter(r) ==
    /\ calls[r] = "writeGetter"
    /\ cfg' = [cfg EXCEPT !.URLGetter = "defaultGet"]
    /\ calls' = [calls EXCEPT ![r] = "pool"]
    /\ UNCHANGED rvars

\* processURLs of the call reads cfg.NumGoRoutines for wg.Add and the
\* spawn loop.
PoolReadsNumGoRoutines(r) ==
    /\ calls[r] = "pool"
    /\ calls' = [calls EXCEPT ![r] = "fetch"]
    /\ UNCHANGED <<cfg, rvars>>

\* A worker of the call reads cfg.URLGetter in ug.Get(ctx, url).
FetchReadsURLGetter(r) ==
    /\ calls[r] = "fetch"
    /\ \E pc \in {"fetch", "served"} : calls' = [calls EXCEPT ![r] = pc]
    /\ UNCHANGED <<cfg, rvars>>

\* The channel is closed, the response written: ServeHTTP returns and the
\* next request of the client may arrive.
ServeHTTPReturn(r) ==
    /\ calls[r] = "served"
    /\ calls' = [calls EXCEPT ![r] = "idle"]
    /\ UNCHANGED <<cfg, rvars>>

RaceNext ==
    \E r \in Requests :
        \/ ServeHTTPCall(r)
        \/ ReadNumGoRoutines(r)
        \/ WriteNumGoRoutines(r)
        \/ ReadURLGetter(r)
        \/ WriteURLGetter(r)
        \/ PoolReadsNumGoRoutines(r)
        \/ FetchReadsURLGetter(r)
        \/ ServeHTTPReturn(r)

RaceSpec == RaceInit /\ [][RaceNext]_vars

\* The access to a field of the shared Config that call r is about to make.
NextAccess(r) ==
    CASE calls[r] = "readNum" -> {[field |-> "NumGoRoutines", write |-> FALSE]}
      [] calls[r] = "writeNum" -> {[field |-> "NumGoRoutines", write |-> TRUE]}
      [] calls[r] = "readGetter" -> {[field |-> "URLGetter", write |-> FALSE]}
      [] calls[r] = "writeGetter" -> {[field |-> "URLGetter", write |-> TRUE]}
      [] calls[r] = "pool" -> {[field |-> "NumGoRoutines", write |-> FALSE]}
      [] calls[r] = "fetch" -> {[field |-> "URLGetter", write |-> FALSE]}
      [] OTHER -> {}

\* Two calls are about to access the same field, one of them writing, with
\* nothing ordering the two accesses.
DataRace ==
    \E r1, r2 \in Requests :
        /\ r1 # r2
        /\ \E a \in NextAccess(r1), b \in NextAccess(r2) :
              a.field = b.field /\ (a.write \/ b.write)

\* ------------------------------------------- the aggregation on its own
\* The slices a producer can send on numbersCh: nil, empty, with repeated
\* integers, in any order.
Items == {NilSlice} \cup {Slice(q) : q \in SeqsUpTo(0..MaxInt, MaxItemLen)}

\* ServeHTTP ranging over a channel that some producer feeds.
AggInit ==
    /\ urls = <<>>
    /\ cfg = [NumGoRoutines |-> 1, URLGetter |-> "testGetter"]
    /\ cancelled = FALSE
    /\ spc = "range"
    /\ numbersMap = {}
    /\ response = <<>>
    /\ status = 0
    /\ ppc = "stream"
    /\ spawned = 0
    /\ next = 0
    /\ wg = 0
    /\ urlChClosed = FALSE
    /\ outCloses = 0
    /\ idle = 0
    /\ exited = 0
    /\ busy = EmptyBag
    /\ panicked = FALSE
    /\ received = <<>>
    /\ handed = <<>>
    /\ fetched = <<>>
    /\ doneTaken = FALSE
    /\ atCancel = [inflight |-> {}, finished |-> {}]
    /\ body = NoBody
    /\ given = 1
    /\ completed = <<>>
    /\ limiter = 0
    /\ limiterClosed = FALSE
    /\ calls = [r \in Requests |-> "idle"]

\* `for ns := range numbersCh` receives a slice and adds its integers.
StreamSend ==
    /\ ppc = "stream"
    /\ spc = "range"
    /\ Len(received) < MaxStream
    /\ \E ns \in Items :
          /\ received' = Append(received, [i |-> 0, ns |-> ns])
          /\ numbersMap' = addNumbers(numbersMap, ns)
    /\ UNCHANGED <<urls, cfg, cancelled, spc, response, status, pvars, idle, exited, busy,
                   panicked, handed, fetched, doneTaken, atCancel, xvars>>

\* The producer closes the channel.
StreamClose ==
    /\ ppc = "stream"
    /\ outCloses' = outCloses + 1
    /\ ppc' = "done"
    /\ UNCHANGED <<urls, cfg, cancelled, svars, spawned, next, wg, urlChClosed,
                   idle, exited, busy, panicked, hvars, xvars>>

AggNext == StreamSend \/ StreamClose \/ Collect \/ WriteResponse \/ Return

AggSpec == AggInit /\ [][AggNext]_vars

\* =============================================================== claims
\* What the remote end holds for an identifier, and whether its attempt
\* fails without any cancellation (server failure, request timeout, or a
\* payload that does not decode).
Fails(url) == url.rt >= GetTimeoutMs \/ url.sr \notin {"http://rand10", "http://rand100"}
Served(url) == IF url.sr = "http://rand10" THEN 0..(N10 - 1) ELSE 0..(N100 - 1)

OutClosed == outCloses > 0
ResultsOf(i) == {k \in 1..Len(received) : received[k].i = i}
Aggregated == spc \in {"write", "return", "done"}
IsAscending(s) == \A k \in 1..(Len(s) - 1) : s[k] < s[k + 1]

\* C1: whenever running goroutines keep being scheduled, every Get returns
\* and the consumer keeps receiving, the returned channel is eventually
\* closed, whenever (if ever) the context is cancelled.
C1_Termination == <>OutClosed

\* The channel is closed after the producer took the ctx.Done branch and a
\* result was still delivered.
C1_Witness == OutClosed /\ doneTaken /\ Len(received) > 0 /\ cfg.NumGoRoutines < Len(urls)

\* C2: the output channel is closed at most once, and when it is closed
\* every worker has exited: none is parked, fetching or about to send, and
\* no send on the closed channel has happened.
C2_CloseAfterWorkers ==
    /\ outCloses <= 1
    /\ ~panicked
    /\ OutClosed => /\ busy = EmptyBag
                    /\ idle = 0
                    /\ exited = cfg.NumGoRoutines
                    /\ wg = 0

\* The channel is closed after a cancellation that found a worker fetching.
C2_Witness == OutClosed /\ atCancel.inflight # {} /\ cfg.NumGoRoutines = MaxGoRoutines

\* C3: once the producer's select has taken the ctx.Done branch, no further
\* identifier is handed to a worker.
C3_NoPushAfterDone == [][doneTaken => handed' = handed]_vars

\* C4: when the channel is closed and the context was not cancelled, every
\* identifier was fetched once and the stream delivered exactly len(urls)
\* results, one per identifier.
C4_AllAttempted ==
    (OutClosed /\ ~cancelled) =>
        /\ Len(received) = Len(urls)
        /\ \A i \in Idx : fetched[i] = 1 /\ Cardinality(ResultsOf(i)) = 1

\* Fewer workers than identifiers, no cancellation, channel closed.
C4_Witness == OutClosed /\ ~cancelled /\ cfg.NumGoRoutines < Len(urls)

\* C5: the number of results sent on the stream never exceeds the number of
\* requested identifiers, repeated identifiers counted per occurrence.
C5_ResultsAtMostUrls == Len(received) <= Len(urls)

\* A repeated identifier, and as many results as identifiers.
C5_Witness == Len(urls) >= 2 /\ urls[1] = urls[2] /\ Len(received) = Len(urls)

\* C6: each occurrence of an identifier is received from the queue by at
\* most one worker and fetched at most once, also after a failed or a
\* cancelled attempt.
C6_AtMostOnce ==
    \A i \in Idx :
        /\ handed[i] <= 1
        /\ fetched[i] <= 1
        /\ \A w \in Workers : w.i = i => CopiesIn(w, busy) = 1
        /\ Cardinality({w \in Workers : w.i = i}) + Cardinality(ResultsOf(i)) <= 1

\* All workers have exited after a cancelled attempt gave a nil result for
\* an identifier the server would have answered.
C6_Witness ==
    /\ exited = cfg.NumGoRoutines
    /\ \E k \in 1..Len(received) :
          /\ received[k].ns.nil
          /\ ~Fails(urls[received[k].i])
          /\ fetched[received[k].i] = 1

\* C7: a failed attempt gives exactly one nil result and does not stop the
\* worker: no worker exits before the queue is closed, and with no
\* cancellation the closed stream has delivered one result per identifier,
\* nil exactly for the failing ones, the others carrying their integers.
C7_FailureIsolation ==
    /\ exited > 0 => urlChClosed
    /\ (OutClosed /\ ~cancelled) =>
          \A i \in Idx :
             /\ Cardinality(ResultsOf(i)) = 1
             /\ \A k \in ResultsOf(i) :
                   /\ received[k].ns.nil <=> Fails(urls[i])
                   /\ ~Fails(urls[i]) =>
                         /\ Range(received[k].ns.v) = Served(urls[i])
                         /\ Len(received[k].ns.v) = Cardinality(Served(urls[i]))

\* One worker delivered a nil result and then a successful one.
C7_Witness ==
    /\ OutClosed /\ ~cancelled /\ cfg.NumGoRoutines = 1
    /\ Len(received) = 2 /\ received[1].ns.nil /\ ~received[2].ns.nil

\* C8: an identifier whose fetch was in flight when the context was
\* cancelled gives a nil result; one whose fetch had finished before still
\* gives its result, and the aggregated response holds all its integers.
C8_InFlightAtCancel ==
    /\ \A k \in 1..Len(received) : received[k].i \in atCancel.inflight => received[k].ns.nil
    /\ \A w \in Sending : w.i \in atCancel.inflight => w.ns.nil
    /\ Aggregated =>
          \A i \in atCancel.finished :
             /\ ResultsOf(i) # {}
             /\ \A k \in ResultsOf(i) :
                   /\ received[k].ns.nil <=> Fails(urls[i])
                   /\ ~Fails(urls[i]) => Served(urls[i]) \subseteq Range(response)

\* A response built from a batch cancelled with one fetch finished
\* successfully and one in flight.
C8_Witness ==
    /\ Aggregated
    /\ atCancel.inflight # {}
    /\ \E i \in atCancel.finished : ~Fails(urls[i])

\* C9: if every result of the batch is nil, then once the response is built
\* the stream was closed without a send on the closed channel, it delivered
\* one nil result per attempted identifier, and the response is empty.
C9_AllFailures ==
    (Aggregated /\ \A k \in 1..Len(received) : received[k].ns.nil) =>
        /\ outCloses = 1
        /\ ~panicked
        /\ Len(received) = Cardinality({i \in Idx : handed[i] > 0})
        /\ \A i \in Idx : handed[i] > 0 => Cardinality(ResultsOf(i)) = 1
        /\ response = <<>>

\* Two different kinds of failure, both delivered as nil, response built.
C9_Witness ==
    /\ Aggregated
    /\ Len(received) = 2
    /\ \A k \in 1..Len(received) : received[k].ns.nil
    /\ urls[1] # urls[2]
    /\ \A i \in Idx : Fails(urls[i])

\* C10: if every fetch succeeds and the context is not cancelled, the
\* response is the ascending sequence of the distinct integers served for
\* the identifiers, whatever the worker count and the interleaving.
C10_SortedUnion ==
    (spc \in {"write", "return"} /\ ~cancelled /\ \A i \in Idx : ~Fails(urls[i])) =>
        /\ IsAscending(response)
        /\ Range(response) = UNION {Served(urls[i]) : i \in Idx}

\* Two different identifiers with overlapping lists, one received unsorted.
C10_Witness ==
    /\ spc = "write" /\ ~cancelled
    /\ Len(urls) = 2 /\ urls[1] # urls[2]
    /\ \A i \in Idx : ~Fails(urls[i])
    /\ \E k \in 1..Len(received) : ~IsAscending(received[k].ns.v)

\* C11: whatever slices were received (nil, empty, with repeated or
\* overlapping integers), the response is strictly ascending, so without
\* duplicates, and its members are exactly the integers of the received
\* slices.
C11_Aggregation ==
    Aggregated =>
        /\ IsAscending(response)
        /\ Range(response) = UNION {Range(received[k].ns.v) : k \in 1..Len(received)}

\* A slice with a repeated integer, then an overlapping slice in
\* descending order.
C11_Witness ==
    /\ Aggregated
    /\ Len(received) = 2
    /\ received[1].ns.v = <<1, 1>>
    /\ received[2].ns.v = <<1, 0>>
    /\ response = <<0, 1>>

\* C12: ServeHTTP builds and writes nothing of its response before the
\* stream is closed: until then it is still in its range loop, also after
\* the context is cancelled.
C12_NoWriteBeforeClose ==
    /\ (Aggregated \/ status # 0 \/ body.written \/ response # <<>>) => OutClosed
    /\ (~OutClosed /\ spc # "call") => spc = "range"

\* The response is written after a cancellation that found a fetch in
\* flight, whose result was still received.
C12_Witness ==
    /\ body.written
    /\ atCancel.inflight # {}
    /\ \A i \in atCancel.inflight : ResultsOf(i) # {}

\* C13: whatever failed or was cut off, the handler answers 200 with the
\* ascending sequence of the integers received, an empty array (not null)
\* when no slice carried an integer; no other status is ever written.
C13_AlwaysOK ==
    /\ status \in {0, 200}
    /\ spc \in {"return", "done"} =>
          /\ status = 200
          /\ body = [written |-> TRUE, Numbers |-> [nil |-> FALSE, v |-> response]]
          /\ IsAscending(response)
          /\ Range(response) = UNION {Range(received[k].ns.v) : k \in 1..Len(received)}
          /\ (\A k \in 1..Len(received) : received[k].ns.nil) => body.Numbers.v = <<>>

\* Everything failed: one identifier by itself, one cut off in flight.
C13_Witness ==
    /\ spc = "done"
    /\ status = 200
    /\ body.Numbers = [nil |-> FALSE, v |-> <<>>]
    /\ Len(received) = 2
    /\ \E i \in atCancel.inflight : ~Fails(urls[i])
    /\ \E i \in atCancel.finished : Fails(urls[i])

\* C14: with no identifier nothing is fetched and nothing is delivered, and
\* the stream is eventually closed with every worker exited, whether the
\* context is cancelled before, during or never, for every worker count.
C14_EmptyBatch ==
    /\ [](Len(urls) = 0 => (received = <<>> /\ busy = EmptyBag /\ next = 0))
    /\ (Len(urls) = 0) ~> (OutClosed /\ idle = 0 /\ exited = spawned /\ spawned > 0)

\* The default number of workers has exited and the stream is closed, the
\* context cancelled while ServeHTTP was ranging.
C14_Witness ==
    /\ Len(urls) = 0
    /\ OutClosed
    /\ cancelled /\ spc = "range"
    /\ exited = numGoRoutines

\* The worker count of the batch: the configured one if positive, else the
\* package default.
W == IF given > 0 THEN given ELSE numGoRoutines

\* C15: exactly W workers are started, W the configured count if positive
\* and 20 otherwise, and at most W fetches are in flight at any time.
C15_Budget ==
    /\ spc # "call" => cfg.NumGoRoutines = W
    /\ spawned <= W
    /\ ppc \in {"loop", "wait", "close", "done"} => spawned = W
    /\ idle + exited + BagCardinality(busy) = spawned
    /\ BagCardinality(busy) <= W

\* The count left unset: 20 workers started, one of them fetching.
C15_Witness ==
    /\ given <= 0
    /\ spawned = 20
    /\ idle = 19
    /\ \E w \in Workers : w.pc = "fetch"

\* C16: when processURLs2 has returned, the output channel is closed,
\* exactly once, and no task is left; in particular when it returned
\* because the context was cancelled with urls not yet dispatched.
C16_ClosedWhenReturned ==
    ppc \in {"returned", "done"} => (outCloses = 1 /\ busy = EmptyBag)

\* The goroutines holding the url with index i, and the tasks of
\* processURLs2 that hold a slot of the limiter.
HeldBy(i) == [w \in {x \in Workers : x.i = i} |-> CopiesIn(w, busy)]
Unreleased ==
    [w \in {x \in Workers : x.pc \in {"tfetch", "tsend", "release"}} |-> CopiesIn(w, busy)]

\* C17: when the context is not cancelled, processURLs and processURLs2
\* both close the channel once, with no goroutine left, after delivering
\* one result per url: nil for a url that fails, the served numbers for
\* any other.
C17_SameResults ==
    (OutClosed /\ ~cancelled) =>
        /\ outCloses = 1 /\ ~panicked /\ busy = EmptyBag
        /\ Len(received) = Len(urls)
        /\ \A i \in Idx : \E k \in 1..Len(received) :
              /\ ResultsOf(i) = {k}
              /\ IF Fails(urls[i])
                 THEN received[k].ns.nil
                 ELSE /\ ~received[k].ns.nil
                      /\ Range(received[k].ns.v) = Served(urls[i])
                      /\ Len(received[k].ns.v) = Cardinality(Served(urls[i]))

\* processURLs2 has run to its end without cancellation and delivered a
\* nil and a non-nil result through a limiter of one.
C17_Witness ==
    /\ ppc = "done" /\ limiterClosed /\ ~cancelled /\ given = 1
    /\ Len(received) = 2
    /\ \E k \in 1..2 : received[k].ns.nil
    /\ \E k \in 1..2 : ~received[k].ns.nil

\* C18: in processURLs2 the tasks that have not released their slot are
\* as many as the elements in the limiter, at most NumGoRoutines; every
\* started task is running or has ended; the limiter is closed only when
\* every task has released and ended.
C18_Limiter ==
    /\ BagCardinality(Unreleased) = limiter
    /\ spc # "call" => (cfg.NumGoRoutines >= 1 /\ limiter <= cfg.NumGoRoutines)
    /\ exited + BagCardinality(busy) = next
    /\ wg = BagCardinality(busy)
    /\ limiterClosed => (busy = EmptyBag /\ limiter = 0 /\ exited = next)

\* With a limiter of one, the first task has released and ended and the
\* second holds the slot, blocked in its send.
C18_Witness ==
    /\ ppc = "loop2" /\ cfg.NumGoRoutines = 1 /\ limiter = 1
    /\ next = 2 /\ exited = 1
    /\ \E w \in Workers : w.pc = "tsend"

\* C19: every url a worker has pulled is held by that worker or has given
\* exactly one received result; nothing is sent on the closed channel;
\* when the channel is closed no worker holds a result and every pulled
\* url has its result, cancelled or not.
C19_NoDrop ==
    /\ ~panicked
    /\ \A i \in Idx : handed[i] = BagCardinality(HeldBy(i)) + Cardinality(ResultsOf(i))
    /\ OutClosed =>
          /\ busy = EmptyBag
          /\ \A i \in Idx : Cardinality(ResultsOf(i)) = handed[i]
          /\ Len(received) = Cardinality({i \in Idx : handed[i] > 0})

\* The channel is closed after the context was cancelled during a fetch,
\* and the result of that fetch was received.
C19_Witness ==
    /\ OutClosed /\ doneTaken
    /\ atCancel.inflight # {}
    /\ \A i \in atCancel.inflight : ResultsOf(i) # {}

\* The place of url index i in the order of the returns of fetchResponse.
PosIn(s, i) == CHOOSE j \in 1..Len(s) : s[j] = i
InCompleted(i) == \E j \in 1..Len(completed) : completed[j] = i

\* C20 as stated: results are received in the order in which their
\* fetches returned.
C20_CompletionOrder ==
    \A k1, k2 \in 1..Len(received) :
        (k1 < k2 /\ InCompleted(received[k1].i) /\ InCompleted(received[k2].i)) =>
            PosIn(completed, received[k1].i) < PosIn(completed, received[k2].i)

\* C20: a result is received only after its fetch returned, and the k-th
\* result received is among the first k + NumGoRoutines - 1 returns: it
\* overtakes at most NumGoRoutines - 1 results of earlier returns, those
\* of workers still blocked in their send.
C20_BoundedOvertaking ==
    \A k \in 1..Len(received) :
        /\ InCompleted(received[k].i)
        /\ PosIn(completed, received[k].i) <= k + cfg.NumGoRoutines - 1

\* Two workers: the fetch that returned second was received first.
C20_Witness ==
    /\ Len(received) = 2 /\ Len(completed) = 2
    /\ completed[1] = received[2].i
    /\ completed[2] = received[1].i
    /\ completed[1] # completed[2]

\* C21: once the context is cancelled the producer loop of processURLs can
\* always take a step, whatever the workers do, and so it leaves the loop
\* and closes urlCh, also when no worker ever receives again.
C21_ProducerNotBlocked ==
    /\ []((cancelled /\ ppc = "loop") => ENABLED Producer)
    /\ (cancelled /\ ppc = "loop") ~> urlChClosed

\* urlCh is closed after the ctx.Done branch was taken for a url, with
\* every worker fetching or blocked in its send and none parked.
C21_Witness ==
    /\ urlChClosed /\ doneTaken /\ ppc = "wait"
    /\ idle = 0 /\ exited = 0
    /\ BagCardinality(busy) = spawned
    /\ Cardinality({i \in Idx : handed[i] = 0}) > 0

\* C22: no two ServeHTTP calls on one NumbersGetter are about to access
\* the same field of its Config with one of them writing.
C22_RaceFree == ~DataRace

====
